---- MODULE Spec2Model ----
(***************************************************************************)
(* Model of the ursa network service event loop                            *)
(* (crates/ursa-network/src/service.rs).                                   *)
(*                                                                         *)
(* One action is one turn of the select loop in UrsaService::start: the    *)
(* item taken (a swarm event or a command) and everything its handler      *)
(* does.  The tables of UrsaService are the state; the swarm is the        *)
(* environment and is modelled by what it reports (connection counts,      *)
(* queries and requests still in flight).  The variables turn, ops,        *)
(* emitted and replied describe the last turn only: the item handled, the  *)
(* swarm operations the handler invoked, the NetworkEvents it emitted and  *)
(* the values it sent on one-shot reply channels, each in program order.   *)
(*                                                                         *)
(* The model is bounded by MaxTurns: the number of commands and of swarm   *)
(* events that bring new activity (a connection, a discovery, an inbound   *)
(* request).  Events that only end activity the swarm already holds (a     *)
(* query completing, a response or failure arriving, a connection closing) *)
(* are not counted.                                                        *)
(*                                                                         *)
(* Spec handles a command in the turn that sends it.  SpecQueue puts the   *)
(* unbounded command channel between the clients and the loop: commands    *)
(* wait in queue until the command arm of the select receives them.        *)
(*                                                                         *)
(* SpecFetch is the loop with the block fetches only, the swarm being      *)
(* fair to every query it has started.  SpecEvents adds to the loop the    *)
(* tasks emit_event spawns, each of which sends one NetworkEvent.          *)
(*                                                                         *)
(* SpecProxy is the cache path of the proxy                                *)
(* (crates/ursa-proxy/src/core/handler.rs): each request is one run of     *)
(* proxy_pass, a step of it being the code between two awaits, and the     *)
(* task it spawns on a 200 response.                                       *)
(***************************************************************************)
EXTENDS Integers, Sequences, FiniteSets, TLC

\* ---------------------------------------------------------------- bounds
NumPeers == 2
NumCids == 2
MaxTurns == 3
MaxRequests == 1
NumBits == 2
CounterMax == 2

Peers == 1..NumPeers
Cids == 1..NumCids
ChanIds == 1..MaxTurns
QueryIds == 1..MaxTurns
RequestIds == 1..MaxRequests
\* The RequestId the swarm gives an inbound request: one stands for all,
\* the handlers only pass it on.
InboundIds == {MaxRequests + 1}
\* The RequestId of a request sent by Put: Put drops the ids send_request
\* returns, so one id stands for all of them.
ReplicaIds == {MaxRequests + 2}

\* ConnectionLimits::with_max_established_per_peer
MaxConns == 8

\* The reply channel of a command that is answered within its own turn.
Caller == 0

\* The proxy: the requests it serves, the keys (paths) they ask for and the
\* chunks the upstream bodies have at most, all together.
NumReqs == 2
NumKeys == 1
MaxChunks == 2
Reqs == 1..NumReqs
Keys == 1..NumKeys
\* A path with which "http://{proxy_pass}/{path}" does not parse as a Uri.
BadPath == 0

VARIABLES
    peers,                \* UrsaService.peers
    peer_cached_content,  \* UrsaService.peer_cached_content
    cached_content,       \* UrsaService.cached_content
    bitswap_queries,      \* UrsaService.bitswap_queries
    response_channels,    \* UrsaService.response_channels
    pending_responses,    \* UrsaService.pending_responses
    loop,                 \* start: "created" | "running" | "panicked" | "exited"
    conns,                \* swarm: established connections per peer
    inflight,             \* swarm: bitswap queries started and not yet complete
    outstanding,          \* swarm: outbound requests neither answered nor failed
    nextQuery,            \* swarm: the next QueryId sync_block hands out
    nextRequest,          \* swarm: the next RequestId send_request hands out
    nextChan,             \* identity of the next stored one-shot reply channel
    replies,              \* per stored reply channel: the values sent on it so far
    removed,              \* per QueryId: times it was removed from bitswap_queries
    putDone,              \* the cids for which a Put command has been handled
    turn,                 \* the item handled by the last turn
    ops,                  \* swarm operations invoked by the last turn
    emitted,              \* NetworkEvents emitted by the last turn
    replied,              \* one-shot replies sent by the last turn
    turns,                \* commands and new swarm activity handled so far
    queue,                \* command channel: the commands sent and not yet received
    closed,               \* command channel: close_command_receiver has been called
    sent,                 \* command channel: commands accepted so far
    taken,                \* command channel: commands received by the loop so far
    intake,               \* the command the loop received last
    handler,              \* proxy: per request, the position of proxy_pass
    tee,                  \* proxy: per request, the task spawned on a 200 response
    cache,                \* proxy: the store behind the Cache client
    tasks,                \* events: the tasks emit_event has spawned, not yet run
    sink                  \* events: what event_sender's channel has been sent, in order

tables == <<peers, peer_cached_content, cached_content, bitswap_queries,
            response_channels, pending_responses>>
swarm == <<conns, inflight, outstanding, nextQuery, nextRequest>>
history == <<nextChan, replies, removed, putDone>>
lastTurn == <<turn, ops, emitted, replied>>
mailbox == <<queue, closed, sent, taken, intake>>
outbox == <<tasks, sink>>
service == <<tables, loop, swarm, history, lastTurn, turns, mailbox, outbox>>
proxy == <<handler, tee, cache>>
vars == <<service, proxy>>

\* ------------------------------------------------------------- helpers
Range(s) == {s[i] : i \in 1..Len(s)}

Drop(f, k) == [x \in (DOMAIN f) \ {k} |-> f[x]]

\* The values sent on each stored reply channel, with those of sends added.
RECURSIVE Deliver(_, _)
Deliver(log, sends) ==
    IF sends = <<>>
    THEN log
    ELSE Deliver([log EXCEPT ![Head(sends).chan] = Append(@, Head(sends).val)], Tail(sends))

Min(a, b) == IF a < b THEN a ELSE b

RECURSIVE Pow2(_)
Pow2(n) == IF n = 0 THEN 1 ELSE 2 * Pow2(n - 1)

\* Every order in which a HashSet of the members of S can be iterated.
Orders(S) == {s \in [1..Cardinality(S) -> S] : \A i, j \in DOMAIN s : s[i] = s[j] => i = j}

\* The lists an mDNS Discovered event carries: some peers, each once.
MdnsLists == UNION {Orders(S) : S \in (SUBSET Peers) \ {{}}}

\* The orders a set of peers can be iterated in.
PeerOrders == {<<>>} \cup MdnsLists

\* ------------------------------------------------- cache summary digest
\* A counting Bloom filter: NumBits saturating counters.
EmptySummary == [i \in 1..NumBits |-> 0]

\* The counters a key hashes to: the set bits of a non-zero code of the key.
Hash(c) ==
    LET code == ((c - 1) % (Pow2(NumBits) - 1)) + 1
    IN {i \in 1..NumBits : (code \div Pow2(i - 1)) % 2 = 1}

Insert(s, c) == [i \in 1..NumBits |-> IF i \in Hash(c) THEN Min(s[i] + 1, CounterMax) ELSE s[i]]

Contains(s, c) == \A i \in Hash(c) : s[i] > 0

\* The summaries a peer advertises in a StoreSummary request.
SummaryInputs == {EmptySummary} \cup {Insert(EmptySummary, c) : c \in Cids}

\* ------------------------------------------------------ record shapes
Turn(kind, peer, cid, id, ok) == [kind |-> kind, peer |-> peer, cid |-> cid, id |-> id, ok |-> ok]

Op(op, peer, cid, summary, to, id) ==
    [op |-> op, peer |-> peer, cid |-> cid, summary |-> summary, to |-> to, id |-> id]

\* The turn of an inbound request: the item carries the request, of which
\* cid is the root of a CacheRequest and summary that of a StoreSummary.
Inbound(kind, peer, cid, id, summary) ==
    [kind |-> kind, peer |-> peer, cid |-> cid, id |-> id, ok |-> TRUE, summary |-> summary]

Event(ev, peer, cid, id) == [ev |-> ev, peer |-> peer, cid |-> cid, id |-> id]

Reply(chan, val, set) == [chan |-> chan, val |-> val, set |-> set]

\* A NetworkCommand in the command channel; seq: its place among the
\* commands the channel has accepted.
Command(cmd, peer, cid, seq) == [cmd |-> cmd, peer |-> peer, cid |-> cid, seq |-> seq]

\* The Response proxy_pass returns; body: the bytes of a cached response.
Response(kind, body) == [kind |-> kind, body |-> body]

\* proxy_pass before the request arrives.  answer: what rx.await gave;
\* status: what Client::get gave.
IdleHandler ==
    [pc |-> "idle", key |-> 0, no_cache |-> FALSE, answer |-> "none", status |-> "none",
     response |-> Response("none", <<>>)]

\* No task spawned.  read: the chunks body.data() has yielded; bytes: the Vec
\* the task collects; pipe: what it has written to the duplex pipe the
\* client reads.
NoTee == [pc |-> "none", read |-> 0, bytes |-> <<>>, pipe |-> <<>>]

\* --------------------------------------------------------------- Init
\* The state UrsaService::new returns, for a configuration without bootstrap
\* nodes.  (Behaviour::new is handed &mut peers and may put the bootstrap
\* peers in the table: the same table, with no connection established, is
\* reached here by an mDNS discovery of those peers.  The configuration is
\* no part of the state: where a handler reads it, it is an input of the
\* turn.)
Init ==
    /\ peers = {}
    /\ peer_cached_content = <<>>
    /\ cached_content = EmptySummary
    /\ bitswap_queries = <<>>
    /\ response_channels = <<>>
    /\ pending_responses = <<>>
    /\ loop = "created"
    /\ conns = [p \in Peers |-> 0]
    /\ inflight = {}
    /\ outstanding = {}
    /\ nextQuery = 1
    /\ nextRequest = 1
    /\ nextChan = 1
    /\ replies = [w \in ChanIds |-> <<>>]
    /\ removed = [q \in QueryIds |-> 0]
    /\ putDone = {}
    /\ turn = Turn("Init", 0, 0, 0, TRUE)
    /\ ops = <<>>
    /\ emitted = <<>>
    /\ replied = <<>>
    /\ turns = 0
    /\ queue = <<>>
    /\ closed = FALSE
    /\ sent = 0
    /\ taken = 0
    /\ intake = Command("None", 0, 0, 0)
    /\ handler = [r \in Reqs |-> IdleHandler]
    /\ tee = [r \in Reqs |-> NoTee]
    /\ cache = <<>>
    /\ tasks = {}
    /\ sink = <<>>

\* UrsaService::start is called: the select loop begins to poll.
start ==
    /\ loop = "created"
    /\ loop' = "running"
    /\ turn' = Turn("Start", 0, 0, 0, TRUE)
    /\ ops' = <<>>
    /\ emitted' = <<>>
    /\ replied' = <<>>
    /\ UNCHANGED <<tables, swarm, history, turns, mailbox, proxy>>

\* ------------------------------------------------------------ commands
\* Behaviour::sync_block: Ok(a fresh QueryId) or Err.
SyncBlock(launch) == IF launch THEN nextQuery ELSE 0

\* Mutant: the empty peer table is not detected.
NoPeers_Never(ps) == FALSE

\* GetBitswap: peers.is_empty()
NoPeers(ps) == ps = {}

\* The peers GetBitswap hands to sync_block.
FilterPeers(cid) ==
    {p \in peers : p \in DOMAIN peer_cached_content => Contains(peer_cached_content[p], cid)}

\* NetworkCommand::GetBitswap { cid, sender }; dropped: the caller's receiver
\* is gone; launch: sync_block returns Ok.
GetBitswap(cid, dropped, launch) ==
    /\ loop = "running"
    /\ UNCHANGED proxy
    /\ turns < MaxTurns
    /\ turns' = turns + 1
    /\ turn' = Turn("GetBitswap", 0, cid, 0, ~dropped)
    /\ IF NoPeers(peers)
       THEN /\ replied' = <<Reply(Caller, "NoPeers", {})>>
            /\ loop' = IF dropped THEN "panicked" ELSE "running"
            /\ ops' = <<>>
            /\ emitted' = <<>>
            /\ UNCHANGED <<tables, swarm, history>>
       ELSE /\ response_channels' =
                 IF cid \in DOMAIN response_channels
                 THEN [response_channels EXCEPT ![cid] = Append(@, nextChan)]
                 ELSE response_channels @@ (cid :> <<nextChan>>)
            /\ nextChan' = nextChan + 1
            /\ LET query_id == SyncBlock(launch)
               IN /\ ops' = <<Op("sync_block", 0, cid, EmptySummary, FilterPeers(cid), query_id)>>
                  /\ IF query_id # 0
                     THEN /\ bitswap_queries' = bitswap_queries @@ (query_id :> cid)
                          /\ emitted' = <<Event("BitswapWant", 0, cid, query_id)>>
                          /\ inflight' = inflight \cup {query_id}
                          /\ nextQuery' = nextQuery + 1
                     ELSE /\ emitted' = <<>>
                          /\ UNCHANGED <<bitswap_queries, inflight, nextQuery>>
            /\ replied' = <<>>
            /\ UNCHANGED <<peers, peer_cached_content, cached_content, pending_responses,
                           loop, conns, outstanding, nextRequest, replies, removed, putDone>>

\* Mutant: one loop over the peers, each sent both requests in turn.
PutOps_Interleaved(cid, order, summary) ==
    [i \in 1..(2 * Len(order)) |->
        IF i % 2 = 1
        THEN Op("CacheRequest", order[(i + 1) \div 2], cid, EmptySummary, {}, 0)
        ELSE Op("StoreSummary", order[i \div 2], 0, summary, {}, 0)]

\* Put: the requests sent, in program order: a CacheRequest to every peer,
\* then (the summary now updated) a StoreSummary to every peer.
PutOps(cid, order, summary) ==
    [i \in 1..Len(order) |-> Op("CacheRequest", order[i], cid, EmptySummary, {}, 0)]
    \o [i \in 1..Len(order) |-> Op("StoreSummary", order[i], 0, summary, {}, 0)]

\* Mutant: the summary is rebuilt from the new key alone.
PutSummary_Reset(cid) == Insert(EmptySummary, cid)

\* Mutant: inserting a key that is present clears the summary.
PutSummary_Toggle(cid) ==
    IF Contains(cached_content, cid) THEN EmptySummary ELSE Insert(cached_content, cid)

\* Put: self.cached_content.insert(&cid.to_bytes())
PutSummary(cid) == Insert(cached_content, cid)

\* NetworkCommand::Put { cid, sender }; order: the iteration order of the
\* peers HashSet, the same in both loops since the set is not changed between.
Put(cid, dropped, order) ==
    /\ loop = "running"
    /\ UNCHANGED proxy
    /\ turns < MaxTurns
    /\ turns' = turns + 1
    /\ order \in Orders(peers)
    /\ turn' = Turn("Put", 0, cid, 0, ~dropped)
    /\ cached_content' = PutSummary(cid)
    /\ ops' = PutOps(cid, order, cached_content')
    /\ replied' = <<Reply(Caller, "Ok", {})>>
    /\ loop' = IF dropped THEN "panicked" ELSE "running"
    /\ emitted' = <<>>
    /\ putDone' = putDone \cup {cid}
    /\ outstanding' = IF peers = {} THEN outstanding ELSE outstanding \cup ReplicaIds
    /\ UNCHANGED <<peers, peer_cached_content, bitswap_queries, response_channels,
                   pending_responses, conns, inflight, nextQuery, nextRequest,
                   nextChan, replies, removed>>

\* NetworkCommand::SendRequest { peer_id, request, channel }
SendRequest(peer_id) ==
    /\ loop = "running"
    /\ UNCHANGED proxy
    /\ turns < MaxTurns
    /\ turns' = turns + 1
    /\ nextRequest <= MaxRequests
    /\ turn' = Turn("SendRequest", peer_id, 0, 0, TRUE)
    /\ ops' = <<Op("Request", peer_id, 0, EmptySummary, {}, nextRequest)>>
    /\ pending_responses' = pending_responses @@ (nextRequest :> nextChan)
    /\ nextChan' = nextChan + 1
    /\ emitted' = <<Event("RequestMessage", 0, 0, nextRequest)>>
    /\ outstanding' = outstanding \cup {nextRequest}
    /\ nextRequest' = nextRequest + 1
    /\ replied' = <<>>
    /\ UNCHANGED <<peers, peer_cached_content, cached_content, bitswap_queries,
                   response_channels, loop, conns, inflight, nextQuery, replies, removed,
                   putDone>>

\* ----------------------------------------------------- command channel
\* The commands clients send: one of each kind that the loop keeps state
\* for (the order they are received in does not depend on their arguments).
Commands ==
    {Command("GetBitswap", 0, 1, 0), Command("Put", 0, 1, 0), Command("SendRequest", 1, 0, 0)}

\* A holder of command_sender() sends c; a send on a closed channel, or to
\* a loop that has ended, is refused.
SendCommand(c) ==
    /\ loop \in {"created", "running"}
    /\ ~closed
    /\ Len(queue) + turns < MaxTurns
    /\ queue' = Append(queue, [c EXCEPT !.seq = sent + 1])
    /\ sent' = sent + 1
    /\ UNCHANGED <<closed, taken, intake>>
    /\ UNCHANGED <<tables, loop, swarm, history, lastTurn, turns, proxy>>

\* close_command_receiver(&mut self): callable only before start(self)
\* takes the service.
close_command_receiver ==
    /\ loop = "created"
    /\ ~closed
    /\ closed' = TRUE
    /\ UNCHANGED <<queue, sent, taken, intake>>
    /\ UNCHANGED <<tables, loop, swarm, history, lastTurn, turns, proxy>>

\* Mutant: the newest command is received first.
Recv_Newest(q) == [command |-> q[Len(q)], rest |-> SubSeq(q, 1, Len(q) - 1)]

\* self.command_receiver.recv() on a non-empty channel: the oldest command.
Recv(q) == [command |-> Head(q), rest |-> Tail(q)]

\* The select arm of the command channel, recv() yielding Some(command):
\* handle_command(command).  dropped: the caller's receiver is gone by now.
RecvCommand ==
    /\ queue # <<>>
    /\ LET command == Recv(queue).command
       IN /\ intake' = command
          /\ queue' = Recv(queue).rest
          /\ taken' = taken + 1
          /\ UNCHANGED <<closed, sent>>
          /\ \/ /\ command.cmd = "GetBitswap"
                /\ \E dropped \in BOOLEAN, launch \in BOOLEAN :
                      GetBitswap(command.cid, dropped, launch)
             \/ /\ command.cmd = "Put"
                /\ \E dropped \in BOOLEAN, order \in PeerOrders :
                      Put(command.cid, dropped, order)
             \/ /\ command.cmd = "SendRequest"
                /\ SendRequest(command.peer)

\* The select arm of the command channel, recv() yielding None (the channel
\* is closed and empty): start returns Err("Command invalid!").
RecvClosed ==
    /\ loop = "running"
    /\ closed
    /\ queue = <<>>
    /\ loop' = "exited"
    /\ turn' = Turn("CommandInvalid", 0, 0, 0, FALSE)
    /\ ops' = <<>>
    /\ emitted' = <<>>
    /\ replied' = <<>>
    /\ UNCHANGED <<tables, swarm, history, turns, mailbox, proxy>>

\* --------------------------------------------------------------- admin
\* POST /purge (ursa-gateway): purge_cache_handler purges the gateway's
\* AdminCache and answers 200 OK.  It holds no handle on the network
\* service: NetworkCommand has no purge variant and cached_content is a
\* private field of UrsaService, so no table of the service is touched.
purge_cache_handler ==
    /\ UNCHANGED <<mailbox, proxy>>
    /\ turns < MaxTurns
    /\ turns' = turns + 1
    /\ turn' = Turn("AdminPurge", 0, 0, 0, TRUE)
    /\ ops' = <<Op("purge", 0, 0, EmptySummary, {}, 0)>>
    /\ replied' = <<Reply(Caller, "OK", {})>>
    /\ emitted' = <<>>
    /\ UNCHANGED <<tables, loop, swarm, history>>

\* The third source of the select: the Kademlia walk timer fires.
KadWalk ==
    /\ loop = "running"
    /\ UNCHANGED <<mailbox, proxy>>
    /\ turns < MaxTurns
    /\ turns' = turns + 1
    /\ turn' = Turn("KadWalk", 0, 0, 0, TRUE)
    /\ ops' = <<Op("get_closest_peers", 0, 0, EmptySummary, {}, 0)>>
    /\ emitted' = <<>>
    /\ replied' = <<>>
    /\ UNCHANGED <<tables, loop, swarm, history>>

\* -------------------------------------------------------- swarm events
\* Mutant: only the first waiter is answered.
BitswapReplies_FirstOnly(chans, outcome) ==
    IF chans = <<>> THEN <<>> ELSE <<Reply(chans[1], outcome, {})>>

\* handle_bitswap, Complete: one send per waiter, in the order of the Vec.
BitswapReplies(chans, outcome) == [i \in 1..Len(chans) |-> Reply(chans[i], outcome, {})]

\* BitswapEvent::Complete(query_id, result); ok: result is Ok(()).
BitswapComplete(query_id, ok) ==
    /\ loop = "running"
    /\ UNCHANGED <<mailbox, proxy>>
    /\ UNCHANGED turns
    /\ query_id \in inflight
    /\ inflight' = inflight \ {query_id}
    /\ turn' = Turn("BitswapComplete", 0, 0, query_id, ok)
    /\ IF query_id \in DOMAIN bitswap_queries
       THEN LET cid == bitswap_queries[query_id]
                outcome == IF ok THEN "Ok" ELSE "NotFound"
            IN /\ bitswap_queries' = Drop(bitswap_queries, query_id)
               /\ removed' = [removed EXCEPT ![query_id] = @ + 1]
               /\ IF cid \in DOMAIN response_channels
                  THEN LET chans == response_channels[cid]
                       IN /\ response_channels' = Drop(response_channels, cid)
                          /\ replied' = BitswapReplies(chans, outcome)
                          /\ replies' = Deliver(replies, replied')
                  ELSE /\ replied' = <<>>
                       /\ UNCHANGED <<response_channels, replies>>
       ELSE /\ replied' = <<>>
            /\ UNCHANGED <<bitswap_queries, response_channels, replies, removed>>
    /\ ops' = <<>>
    /\ emitted' = <<>>
    /\ UNCHANGED <<peers, peer_cached_content, cached_content, pending_responses, loop,
                   conns, outstanding, nextQuery, nextRequest, nextChan, putDone>>

\* handle_mdns, MdnsEvent::Discovered: the swarm operations, in list order.
RECURSIVE MdnsOps(_, _)
MdnsOps(list, known) ==
    IF list = <<>>
    THEN <<>>
    ELSE LET p == Head(list)
         IN <<Op("add_address", p, 0, EmptySummary, {}, 0)>>
            \o (IF p \in known THEN <<>> ELSE <<Op("dial", p, 0, EmptySummary, {}, 0)>>)
            \o MdnsOps(Tail(list), known \cup {p})

\* BehaviourEvent::Mdns(MdnsEvent::Discovered(discovered_peers))
MdnsDiscovered(discovered_peers) ==
    /\ loop = "running"
    /\ UNCHANGED <<mailbox, proxy>>
    /\ turns < MaxTurns
    /\ turns' = turns + 1
    /\ turn' = Turn("MdnsDiscovered", 0, 0, 0, TRUE)
    /\ peers' = peers \cup Range(discovered_peers)
    /\ ops' = MdnsOps(discovered_peers, peers)
    /\ emitted' = <<>>
    /\ replied' = <<>>
    /\ UNCHANGED <<peer_cached_content, cached_content, bitswap_queries, response_channels,
                   pending_responses, loop, swarm, history>>

\* Mutant: a summary already stored for the peer is kept.
StoreSummary_KeepFirst(content, peer, summary) ==
    IF peer \in DOMAIN content THEN content ELSE content @@ (peer :> summary)

\* StoreSummary: self.peer_cached_content.insert(peer, *cache_summary)
StoreSummary(content, peer, summary) ==
    [p \in (DOMAIN content) \cup {peer} |-> IF p = peer THEN summary ELSE content[p]]

\* RequestResponseMessage::Request from peer; kind is the RequestType.
ReqResRequest(peer, request_id, kind, cid, summary) ==
    /\ loop = "running"
    /\ UNCHANGED <<mailbox, proxy>>
    /\ turns < MaxTurns
    /\ turns' = turns + 1
    /\ conns[peer] > 0
    /\ turn' = Inbound(kind, peer, cid, request_id, summary)
    /\ CASE kind = "CarRequest" ->
              /\ ops' = <<>>
              /\ UNCHANGED peer_cached_content
         [] kind = "CacheRequest" ->
              /\ ops' = <<Op("graphsync", peer, cid, EmptySummary, {}, 0),
                          Op("CacheResponse", peer, 0, EmptySummary, {}, request_id)>>
              /\ UNCHANGED peer_cached_content
         [] kind = "StoreSummary" ->
              /\ peer_cached_content' = StoreSummary(peer_cached_content, peer, summary)
              /\ ops' = <<Op("StoreSummaryRequest", peer, 0, EmptySummary, {}, request_id)>>
    /\ emitted' = <<Event("RequestMessage", 0, 0, request_id)>>
    /\ replied' = <<>>
    /\ UNCHANGED <<peers, cached_content, bitswap_queries, response_channels,
                   pending_responses, loop, swarm, history>>

\* Mutant: the entry of an answered request is kept.
RemovePending_Kept(pending, request_id) == pending

\* Response: self.pending_responses.remove(&request_id)
RemovePending(pending, request_id) == Drop(pending, request_id)

\* RequestResponseMessage::Response { request_id, response }
ReqResResponse(request_id) ==
    /\ loop = "running"
    /\ UNCHANGED <<mailbox, proxy>>
    /\ UNCHANGED turns
    /\ request_id \in outstanding
    /\ outstanding' = outstanding \ {request_id}
    /\ turn' = Turn("Response", 0, 0, request_id, TRUE)
    /\ IF request_id \in DOMAIN pending_responses
       THEN /\ pending_responses' = RemovePending(pending_responses, request_id)
            /\ replied' = <<Reply(pending_responses[request_id], "Response", {})>>
            /\ replies' = Deliver(replies, replied')
       ELSE /\ replied' = <<>>
            /\ UNCHANGED <<pending_responses, replies>>
    /\ ops' = <<>>
    /\ emitted' = <<>>
    /\ UNCHANGED <<peers, peer_cached_content, cached_content, bitswap_queries,
                   response_channels, loop, conns, inflight, nextQuery, nextRequest,
                   nextChan, removed, putDone>>

\* RequestResponseEvent::OutboundFailure for an outbound request
ReqResOutboundFailure(request_id) ==
    /\ loop = "running"
    /\ UNCHANGED <<mailbox, proxy>>
    /\ UNCHANGED turns
    /\ request_id \in outstanding
    /\ outstanding' = outstanding \ {request_id}
    /\ turn' = Turn("OutboundFailure", 0, 0, request_id, TRUE)
    /\ ops' = <<>>
    /\ emitted' = <<>>
    /\ replied' = <<>>
    /\ UNCHANGED <<tables, loop, conns, inflight, nextQuery, nextRequest, history>>

\* Mutant: every new connection counts as a new peer.
NewlyInserted_Always(ps, peer_id) == TRUE

\* ConnectionEstablished: the value of self.peers.insert(peer_id)
NewlyInserted(ps, peer_id) == peer_id \notin ps

\* SwarmEvent::ConnectionEstablished { peer_id, .. }
ConnectionEstablished(peer_id) ==
    /\ loop = "running"
    /\ UNCHANGED <<mailbox, proxy>>
    /\ turns < MaxTurns
    /\ turns' = turns + 1
    /\ conns[peer_id] < MaxConns
    /\ conns' = [conns EXCEPT ![peer_id] = @ + 1]
    /\ turn' = Turn("ConnectionEstablished", peer_id, 0, 0, TRUE)
    /\ peers' = peers \cup {peer_id}
    /\ emitted' = IF NewlyInserted(peers, peer_id)
                  THEN <<Event("PeerConnected", peer_id, 0, 0)>>
                  ELSE <<>>
    /\ ops' = <<>>
    /\ replied' = <<>>
    /\ UNCHANGED <<peer_cached_content, cached_content, bitswap_queries, response_channels,
                   pending_responses, loop, inflight, outstanding, nextQuery, nextRequest,
                   history>>

\* Mutant: the summary of a disconnected peer is kept.
RemoveSummary_Kept(content, peer_id) == content

\* ConnectionClosed: self.peer_cached_content.remove(&peer_id)
RemoveSummary(content, peer_id) == Drop(content, peer_id)

\* Mutant: any closed connection counts as the last one.
LastConnection_Any(num_established) == TRUE

\* ConnectionClosed: num_established == 0
LastConnection(num_established) == num_established = 0

\* Mutant: the waiters of block fetches are dropped with the connection.
ClosedLeaves_DropsWaiters ==
    /\ response_channels' = <<>>
    /\ UNCHANGED <<cached_content, bitswap_queries, pending_responses,
                   loop, inflight, outstanding, nextQuery, nextRequest, history>>

\* ConnectionClosed: the arm touches peers and peer_cached_content only.
ClosedLeaves ==
    UNCHANGED <<cached_content, bitswap_queries, response_channels, pending_responses,
                loop, inflight, outstanding, nextQuery, nextRequest, history>>

\* SwarmEvent::ConnectionClosed { peer_id, num_established, .. }
ConnectionClosed(peer_id) ==
    /\ loop = "running"
    /\ UNCHANGED <<mailbox, proxy>>
    /\ UNCHANGED turns
    /\ conns[peer_id] > 0
    /\ conns' = [conns EXCEPT ![peer_id] = @ - 1]
    /\ LET num_established == conns[peer_id] - 1
       IN /\ turn' = Turn("ConnectionClosed", peer_id, 0, num_established, TRUE)
          /\ IF LastConnection(num_established) /\ peer_id \in peers
             THEN /\ peers' = peers \ {peer_id}
                  /\ peer_cached_content' = RemoveSummary(peer_cached_content, peer_id)
                  /\ emitted' = <<Event("PeerDisconnected", peer_id, 0, 0)>>
             ELSE /\ emitted' = <<>>
                  /\ UNCHANGED <<peers, peer_cached_content>>
    /\ ops' = <<>>
    /\ replied' = <<>>
    /\ ClosedLeaves

\* NatStatus, without the address of Public.
NatStatuses == {"Unknown", "Private", "Public"}

\* handle_autonat: the relay is listened on at Unknown -> Private, when the
\* relay client is enabled and a bootstrap node is configured.
ListensOnRelay(old, new, relay) == old = "Unknown" /\ new = "Private" /\ relay

\* AutonatEvent::StatusChanged { old, new }.  relay: relay_client.is_enabled()
\* and self.bootstraps has an address to choose; listened: listen_on returns
\* Ok.  Both are fixed by the configuration and the transport, not by the
\* tables.
AutonatStatusChanged(old, new, relay, listened) ==
    /\ loop = "running"
    /\ UNCHANGED <<mailbox, proxy>>
    /\ turns < MaxTurns
    /\ turns' = turns + 1
    /\ old # new
    /\ IF ListensOnRelay(old, new, relay)
       THEN /\ ops' = <<Op("listen_on", 0, 0, EmptySummary, {}, 0)>>
            /\ turn' = Turn("Autonat", 0, 0, 0, listened)
            /\ loop' = IF listened THEN "running" ELSE "panicked"
       ELSE /\ listened
            /\ ops' = <<>>
            /\ turn' = Turn("Autonat", 0, 0, 0, TRUE)
            /\ UNCHANGED loop
    /\ emitted' = <<>>
    /\ replied' = <<>>
    /\ UNCHANGED <<tables, swarm, history>>

\* -------------------------------------------------------------- events
\* The tasks spawned so far: those still to run and those that have sent.
Spawned == Cardinality(tasks) + Len(sink)

\* A task of emit_event: it holds the event; n: its place among the tasks
\* spawned.
Task(event, n) == [event |-> event, n |-> n]

\* emit_event, called by the handler of this turn once for every event of
\* emitted', in that order: each call spawns a task that will send the
\* event; the handler does not wait for it.
emit_event ==
    /\ tasks' = tasks \cup {Task(emitted'[i], Spawned + i) : i \in 1..Len(emitted')}
    /\ UNCHANGED sink

\* tokio::task::spawn: the tasks the runtime may run next.  Spawned tasks
\* are run in no promised order (on any worker, newest first from a
\* worker's own slot).
Runnable(ts) == ts

\* A task of emit_event runs: sender.send(event).  The service holds the
\* receiver (_event_receiver), so the send succeeds.
EmitTask(t) ==
    /\ t \in Runnable(tasks)
    /\ tasks' = tasks \ {t}
    /\ sink' = Append(sink, t)
    /\ UNCHANGED <<tables, loop, swarm, history, lastTurn, turns, mailbox, proxy>>

\* --------------------------------------------------------------- proxy
\* The cache client's store, answering ProxyEvent::GetRequest.
Lookup(store, key) == IF key \in DOMAIN store THEN <<store[key]>> ELSE <<>>

\* The cache client's store, after ProxyEvent::UpstreamData { key, value }.
Store(store, key, value) ==
    [k \in (DOMAIN store) \cup {key} |-> IF k = key THEN value ELSE store[k]]

\* endpoint.parse::<Uri>() succeeds.
Parses(path) == path # BadPath

\* proxy_pass from line 49 on: parse the endpoint and issue the upstream GET.
ToUpstream(h) ==
    IF Parses(h.key)
    THEN [h EXCEPT !.pc = "get"]
    ELSE [h EXCEPT !.pc = "done", !.response = Response("parse_error", <<>>)]

\* Mutant: the no-cache directive is not honoured.
SkipsCache_Never(no_cache) == FALSE

\* proxy_pass: the block under "if !no_cache" is skipped.
SkipsCache(no_cache) == no_cache

\* GET /{path} arrives: proxy_pass up to its first await.  The requests are
\* numbered in the order they arrive and the keys in the order they are
\* first asked for.
ProxyRequest(r, path, no_cache) ==
    /\ handler[r].pc = "idle"
    /\ \A q \in Reqs : q < r => handler[q].pc # "idle"
    /\ \A k \in Keys : k < path => \E q \in Reqs : handler[q].key = k
    /\ LET h == [handler[r] EXCEPT !.key = path, !.no_cache = no_cache]
       IN handler' = [handler EXCEPT ![r] = IF SkipsCache(no_cache)
                                            THEN ToUpstream(h)
                                            ELSE [h EXCEPT !.pc = "lookup"]]
    /\ UNCHANGED <<tee, cache, service>>

\* Mutant: a dropped reply channel ends the request with an error.
OnAnswer_DroppedFails(h, kind, found) ==
    IF kind = "hit"
    THEN [h EXCEPT !.answer = kind, !.pc = "done", !.response = Response("cached", found[1])]
    ELSE IF kind = "dropped"
         THEN [h EXCEPT !.answer = kind, !.pc = "done", !.response = Response("500", <<>>)]
         ELSE ToUpstream([h EXCEPT !.answer = kind])

\* Mutant: a cached response is not returned.
OnAnswer_Ignored(h, kind, found) == ToUpstream([h EXCEPT !.answer = kind])

\* proxy_pass, match rx.await: kind is "hit" for Ok(Some(resp)), with
\* found = <<resp>>, "miss" for Ok(None) and "dropped" for Err.
OnAnswer(h, kind, found) ==
    IF kind = "hit"
    THEN [h EXCEPT !.answer = kind, !.pc = "done", !.response = Response("cached", found[1])]
    ELSE ToUpstream([h EXCEPT !.answer = kind])

\* The cache client answers the GetRequest of r, or drops its sender.
CacheReply(r, dropped) ==
    /\ handler[r].pc = "lookup"
    /\ LET found == Lookup(cache, handler[r].key)
           kind == IF dropped THEN "dropped" ELSE IF found = <<>> THEN "miss" ELSE "hit"
       IN handler' = [handler EXCEPT ![r] = OnAnswer(@, kind, found)]
    /\ UNCHANGED <<tee, cache, service>>

\* Mutant: every upstream response is teed into the cache.
IsOk_Any(status) == TRUE

\* proxy_pass, match resp.into_parts(): status: StatusCode::OK
IsOk(status) == status = "200"

\* Client::new().get(uri).await returns: "error" for Err, else the status
\* of the response ("other": any status but 200).
UpstreamResponse(r, status) ==
    /\ handler[r].pc = "get"
    /\ IF status = "error"
       THEN /\ handler' = [handler EXCEPT ![r].pc = "done", ![r].status = status,
                                          ![r].response = Response("500", <<>>)]
            /\ UNCHANGED tee
       ELSE IF IsOk(status)
            THEN /\ handler' = [handler EXCEPT ![r].pc = "spawned", ![r].status = status]
                 /\ tee' = [tee EXCEPT ![r].pc = "draining"]
            ELSE /\ handler' = [handler EXCEPT ![r].pc = "done", ![r].status = status,
                                               ![r].response = Response("passthrough", <<>>)]
                 /\ UNCHANGED tee
    /\ UNCHANGED <<cache, service>>

\* proxy_pass after spawn: the read half of the pipe is returned as the body
\* of the response.  The task is already running: spawn does not wait and
\* the two are not ordered.
ReturnStream(r) ==
    /\ handler[r].pc = "spawned"
    /\ handler' = [handler EXCEPT ![r].pc = "done", ![r].response = Response("stream", <<>>)]
    /\ UNCHANGED <<tee, cache, service>>

\* The chunks the tasks have read and hold, all together.
RECURSIVE Drained(_)
Drained(n) == IF n = 0 THEN 0 ELSE tee[n].read + Drained(n - 1)

\* Mutant: a chunk is kept for the cache only if the client took it.
Collect_IfWritten(bytes, buf, wrote) == IF wrote THEN Append(bytes, buf) ELSE bytes

\* The spawned task: bytes.put(buf), whatever write_all returned.
Collect(bytes, buf, wrote) == Append(bytes, buf)

\* Mutant: the newest chunk is put in front of the pipe.
WriteAll_InFront(pipe, buf, wrote) == IF wrote THEN <<buf>> \o pipe ELSE pipe

\* The spawned task: writer.write_all(buf.as_ref()).await
WriteAll(pipe, buf, wrote) == IF wrote THEN Append(pipe, buf) ELSE pipe

\* The spawned task, body.data() yields Some(Ok(buf)): the chunk is written
\* to the pipe and put in the Vec.  The chunks of a body are numbered in
\* arrival order.  wrote: write_all succeeded; it fails once the client has
\* dropped the read half, which the client holds only after the response is
\* returned, and then every later write fails.
TeeChunk(r, wrote) ==
    /\ tee[r].pc = "draining"
    /\ Drained(NumReqs) < MaxChunks
    /\ wrote => Len(tee[r].pipe) = tee[r].read
    /\ ~wrote => handler[r].pc = "done"
    /\ LET buf == tee[r].read + 1
       IN tee' = [tee EXCEPT ![r].read = buf,
                             ![r].bytes = Collect(@, buf, wrote),
                             ![r].pipe = WriteAll(@, buf, wrote)]
    /\ UNCHANGED <<handler, cache, service>>

\* The spawned task, Some(Err(e)): log and return; the body, the Vec and the
\* write half of the pipe are dropped.
OnChunkError(t) == [t EXCEPT !.pc = "aborted", !.read = 0, !.bytes = <<>>, !.pipe = <<>>]

\* The spawned task, body.data() yields Some(Err(e)) or None.  At None the
\* task sends UpstreamData { key, value: bytes } and the cache client stores it.
TeeEnd(r, clean) ==
    /\ tee[r].pc = "draining"
    /\ LET t == IF clean THEN [tee[r] EXCEPT !.pc = "ended"] ELSE OnChunkError(tee[r])
       IN IF t.pc = "ended"
          THEN /\ tee' = [tee EXCEPT ![r] = [t EXCEPT !.pc = "sent"]]
               /\ cache' = Store(cache, handler[r].key, t.bytes)
          ELSE /\ tee' = [tee EXCEPT ![r] = t]
               /\ UNCHANGED cache
    /\ UNCHANGED <<handler, service>>

\* ------------------------------------------------------ specification
\* The proxy and its cache client.
NextProxy ==
    \/ \E r \in Reqs, path \in Keys \cup {BadPath}, no_cache \in BOOLEAN :
          ProxyRequest(r, path, no_cache)
    \/ \E r \in Reqs, dropped \in BOOLEAN : CacheReply(r, dropped)
    \/ \E r \in Reqs, status \in {"error", "200", "other"} : UpstreamResponse(r, status)
    \/ \E r \in Reqs : ReturnStream(r)
    \/ \E r \in Reqs, wrote \in BOOLEAN : TeeChunk(r, wrote)
    \/ \E r \in Reqs, clean \in BOOLEAN : TeeEnd(r, clean)

SpecProxy == Init /\ [][NextProxy]_vars

\* Every turn but GetBitswap.
OtherTurn ==
    \/ \E cid \in Cids, dropped \in BOOLEAN, order \in PeerOrders :
          Put(cid, dropped, order) /\ UNCHANGED <<mailbox, outbox>>
    \/ \E p \in Peers : SendRequest(p) /\ UNCHANGED <<mailbox, outbox>>
    \/ start /\ UNCHANGED outbox
    \/ purge_cache_handler /\ UNCHANGED outbox
    \/ KadWalk /\ UNCHANGED outbox
    \/ \E q \in QueryIds, ok \in BOOLEAN : BitswapComplete(q, ok) /\ UNCHANGED outbox
    \/ \E list \in MdnsLists : MdnsDiscovered(list) /\ UNCHANGED outbox
    \/ \E p \in Peers, r \in InboundIds :
          ReqResRequest(p, r, "CarRequest", 0, EmptySummary) /\ UNCHANGED outbox
    \/ \E p \in Peers, r \in InboundIds, cid \in Cids :
          ReqResRequest(p, r, "CacheRequest", cid, EmptySummary) /\ UNCHANGED outbox
    \/ \E p \in Peers, r \in InboundIds, s \in SummaryInputs :
          ReqResRequest(p, r, "StoreSummary", 0, s) /\ UNCHANGED outbox
    \/ \E r \in RequestIds \cup ReplicaIds : ReqResResponse(r) /\ UNCHANGED outbox
    \/ \E r \in RequestIds \cup ReplicaIds : ReqResOutboundFailure(r) /\ UNCHANGED outbox
    \/ \E p \in Peers : ConnectionEstablished(p) /\ UNCHANGED outbox
    \/ \E p \in Peers : ConnectionClosed(p) /\ UNCHANGED outbox
    \/ \E old \in NatStatuses, new \in NatStatuses, relay \in BOOLEAN, listened \in BOOLEAN :
          AutonatStatusChanged(old, new, relay, listened) /\ UNCHANGED outbox

Next ==
    \/ \E cid \in Cids, dropped \in BOOLEAN, launch \in BOOLEAN :
          GetBitswap(cid, dropped, launch) /\ UNCHANGED <<mailbox, outbox>>
    \/ OtherTurn

Spec == Init /\ [][Next]_vars

\* The behaviours in which sync_block never fails.
NextLaunched ==
    \/ \E cid \in Cids, dropped \in BOOLEAN :
          GetBitswap(cid, dropped, TRUE) /\ UNCHANGED <<mailbox, outbox>>
    \/ OtherTurn

SpecLaunched == Init /\ [][NextLaunched]_vars

\* Block fetches with callers that wait for their reply, and the swarm
\* bringing every query it has started to its Complete event.
NextFetch ==
    \/ start /\ UNCHANGED outbox
    \/ \E cid \in Cids, launch \in BOOLEAN :
          GetBitswap(cid, FALSE, launch) /\ UNCHANGED <<mailbox, outbox>>
    \/ \E q \in QueryIds, ok \in BOOLEAN : BitswapComplete(q, ok) /\ UNCHANGED outbox
    \/ \E p \in Peers : ConnectionEstablished(p) /\ UNCHANGED outbox
    \/ \E p \in Peers : ConnectionClosed(p) /\ UNCHANGED outbox

SpecFetch ==
    /\ Init
    /\ [][NextFetch]_vars
    /\ \A q \in QueryIds : WF_vars(\E ok \in BOOLEAN : BitswapComplete(q, ok))

\* The loop and the tasks its handlers spawn to send their NetworkEvents.
NextEvents ==
    \/ start /\ emit_event
    \/ \E list \in MdnsLists : MdnsDiscovered(list) /\ emit_event
    \/ \E p \in Peers : ConnectionEstablished(p) /\ emit_event
    \/ \E p \in Peers : ConnectionClosed(p) /\ emit_event
    \/ \E p \in Peers, r \in InboundIds :
          ReqResRequest(p, r, "CarRequest", 0, EmptySummary) /\ emit_event
    \/ \E t \in tasks : EmitTask(t)

SpecEvents == Init /\ [][NextEvents]_vars

\* The service behind its command channel: clients send commands, the loop
\* receives them in its select among the swarm's events and the timer.
NextQueue ==
    \/ \E c \in Commands : SendCommand(c) /\ UNCHANGED outbox
    \/ close_command_receiver /\ UNCHANGED outbox
    \/ start /\ UNCHANGED outbox
    \/ RecvCommand /\ UNCHANGED outbox
    \/ RecvClosed /\ UNCHANGED outbox
    \/ KadWalk /\ UNCHANGED outbox
    \/ \E q \in QueryIds, ok \in BOOLEAN : BitswapComplete(q, ok) /\ UNCHANGED outbox
    \/ \E r \in RequestIds \cup ReplicaIds : ReqResResponse(r) /\ UNCHANGED outbox
    \/ \E p \in Peers : ConnectionEstablished(p) /\ UNCHANGED outbox
    \/ \E p \in Peers : ConnectionClosed(p) /\ UNCHANGED outbox

SpecQueue == Init /\ [][NextQueue]_vars

\* ============================================================== claims
\* The waiters of cid, in insertion order (none when cid has no entry).
Waiters(cid) == IF cid \in DOMAIN response_channels THEN response_channels[cid] ELSE <<>>

\* ------------------------------------------------------------------ C1
C1_Step ==
    \A q \in DOMAIN bitswap_queries :
        (turn'.kind = "BitswapComplete" /\ turn'.id = q) =>
            LET cid == bitswap_queries[q]
                chans == Waiters(cid)
                outcome == IF turn'.ok THEN "Ok" ELSE "NotFound"
            IN /\ q \notin DOMAIN bitswap_queries'
               /\ cid \notin DOMAIN response_channels'
               /\ Len(replied') = Len(chans)
               /\ \A i \in 1..Len(chans) :
                     replied'[i].chan = chans[i] /\ replied'[i].val = outcome
               /\ \A w \in ChanIds :
                     replies'[w] = IF w \in Range(chans) THEN Append(replies[w], outcome)
                                                        ELSE replies[w]

\* C1: handling Complete(query_id, result) for a query_id present in
\* BitswapQueries removes the entry, sends exactly one reply with the same
\* outcome (Ok, or not-found) on every channel of BlockWaiters[cid], in
\* insertion order, and removes BlockWaiters[cid]; over any trace no waiter
\* is sent more than one reply and no query_id is removed more than once.
C1_CompleteAnswersEveryWaiterOnce ==
    /\ [][C1_Step]_vars
    /\ [](\A w \in ChanIds : Len(replies[w]) <= 1)
    /\ [](\A q \in QueryIds : removed[q] <= 1)

\* A completion that answered two coalesced waiters, oldest first.
C1_Witness ==
    /\ turn.kind = "BitswapComplete"
    /\ Len(replied) = 2
    /\ replied[1].chan < replied[2].chan
    /\ replies[replied[1].chan] = <<replied[1].val>>

\* ------------------------------------------------------------------ C2
\* C2: between turns, for every cid, BlockWaiters[cid] exists and is
\* non-empty if and only if some entry of BitswapQueries maps to cid.
C2_WaitersIffQuery ==
    \A cid \in Cids :
        (cid \in DOMAIN response_channels /\ response_channels[cid] # <<>>)
            <=> (\E q \in DOMAIN bitswap_queries : bitswap_queries[q] = cid)

\* ------------------------------------------------------------------ C3
\* C3: GetBitswap coalesces: a fetch is started only by the command that
\* adds the first waiter of its cid, so at most one BitswapQueries entry
\* per cid exists at any time.
C3_OneFetchPerCid ==
    /\ \A q1, q2 \in DOMAIN bitswap_queries :
          bitswap_queries[q1] = bitswap_queries[q2] => q1 = q2
    /\ (turn.kind = "GetBitswap" /\ Len(Waiters(turn.cid)) > 1) => ops = <<>>

\* ------------------------------------------------------------------ C4
\* The peers of the table whose stored summary contains cid.
Advertisers(cid) ==
    {p \in peers : p \in DOMAIN peer_cached_content /\ Contains(peer_cached_content[p], cid)}

\* C4: the peer set handed to the fetch of a GetBitswap(cid) is the set of
\* PeerTable members whose summary contains cid when that set is non-empty
\* and the whole PeerTable otherwise; it is never empty.
C4_PreferredPeersOrAll ==
    (turn.kind = "GetBitswap" /\ ops # <<>>) =>
        /\ ops[1].to = (IF Advertisers(turn.cid) # {} THEN Advertisers(turn.cid) ELSE peers)
        /\ ops[1].to # {}

\* ------------------------------------------------------------------ C5
C5_Step ==
    (turn'.kind = "GetBitswap" /\ peers = {}) =>
        /\ replied' = <<Reply(Caller, "NoPeers", {})>>
        /\ UNCHANGED tables
        /\ UNCHANGED <<inflight, nextQuery, outstanding, nextRequest>>
        /\ ops' = <<>>
        /\ emitted' = <<>>

\* C5: a GetBitswap handled while PeerTable is empty sends the no-peers
\* failure on the caller's channel and changes none of BlockWaiters,
\* BitswapQueries, PendingResponses, PeerTable, PeerContentMap and
\* CacheSummary; it starts no fetch and emits no NetworkEvent.
C5_NoPeersNoMutation == [][C5_Step]_vars

\* The no-peers reply, given while an earlier waiter is still stored.
C5_Witness ==
    /\ turn.kind = "GetBitswap"
    /\ peers = {}
    /\ replied = <<Reply(Caller, "NoPeers", {})>>
    /\ DOMAIN response_channels # {}

\* ------------------------------------------------------------------ C6
\* C6: every PeerId that is a key of PeerContentMap is in PeerTable.
C6_ContentPeersConnected == DOMAIN peer_cached_content \subseteq peers

\* A last connection closed while a summary is stored.
C6_Witness ==
    /\ turn.kind = "ConnectionClosed"
    /\ turn.id = 0
    /\ turn.peer \notin peers
    /\ DOMAIN peer_cached_content # {}

\* ------------------------------------------------------------------ C7
\* C7: a PeerId is in PeerTable if and only if it has an established
\* connection that is not closed.
C7_TableIsConnected == \A p \in Peers : p \in peers <=> conns[p] > 0

\* ------------------------------------------------------------------ C8
\* C8: Put(cid) sends one CacheRequest(cid) to every peer of PeerTable,
\* inserts cid into CacheSummary, then sends each of those peers one
\* StoreSummary whose summary contains cid; every CacheRequest precedes
\* every StoreSummary, nothing goes to other peers, the caller is sent Ok.
C8_PutReplicates ==
    turn.kind = "Put" =>
        LET n == Cardinality(peers)
        IN /\ Len(ops) = 2 * n
           /\ \A i \in 1..n : ops[i].op = "CacheRequest" /\ ops[i].cid = turn.cid
           /\ {ops[i].peer : i \in 1..n} = peers
           /\ \A i \in (n + 1)..(2 * n) :
                 /\ ops[i].op = "StoreSummary"
                 /\ ops[i].summary = cached_content
                 /\ Contains(ops[i].summary, turn.cid)
           /\ {ops[i].peer : i \in (n + 1)..(2 * n)} = peers
           /\ Contains(cached_content, turn.cid)
           /\ replied = <<Reply(Caller, "Ok", {})>>

\* A Put handled with two peers in the table.
C8_Witness == turn.kind = "Put" /\ Cardinality(peers) = 2 /\ Len(ops) = 4

\* ------------------------------------------------------------------ C9
\* C9: CacheSummary contains every cid for which a Put has been handled,
\* and no turn makes it stop containing a key.
C9_SummaryMonotonic ==
    /\ [](\A c \in putDone : Contains(cached_content, c))
    /\ [][\A k \in Cids : Contains(cached_content, k) => Contains(cached_content', k)]_vars

\* Two cids Put, and a swarm event handled afterwards.
C9_Witness == Cardinality(putDone) >= 2 /\ turn.kind = "ConnectionEstablished"

\* ----------------------------------------------------------------- C10
\* C10: a Put(cid) handled after an earlier Put(cid) leaves contains(k)
\* of CacheSummary as it was, for every key k.
C10_PutIdempotent ==
    [][(turn'.kind = "Put" /\ turn'.cid \in putDone) =>
          \A k \in Cids : Contains(cached_content', k) <=> Contains(cached_content, k)]_vars

\* The second Put of the only cid Put so far.
C10_Witness ==
    /\ turn.kind = "Put"
    /\ putDone = {turn.cid}
    /\ \E i \in Hash(turn.cid) : cached_content[i] >= 2

\* ----------------------------------------------------------------- C11
\* C11: once AdminPurgeCache has completed, the local CacheSummary contains
\* no cid (also none Put before the purge), and the purge sends nothing to
\* the peers.
C11_PurgeEmptiesSummary ==
    turn.kind = "AdminPurge" =>
        /\ \A c \in Cids : ~Contains(cached_content, c)
        /\ \A i \in 1..Len(ops) : ops[i].op \notin {"CacheRequest", "StoreSummary", "Request"}

\* ----------------------------------------------------------------- C12
C12_Step ==
    turn'.kind = "ConnectionClosed" =>
        LET p == turn'.peer
        IN IF turn'.id = 0
           THEN /\ peers' = peers \ {p}
                /\ p \notin peers'
                /\ peer_cached_content' = Drop(peer_cached_content, p)
                /\ p \notin DOMAIN peer_cached_content'
                /\ emitted' = <<Event("PeerDisconnected", p, 0, 0)>>
           ELSE /\ UNCHANGED <<peers, peer_cached_content>>
                /\ emitted' = <<>>

\* C12: ConnectionClosed for peer p with num_established = 0 removes p from
\* PeerTable and from PeerContentMap and emits PeerDisconnected(p); with
\* num_established > 0 it leaves both tables unchanged and emits nothing.
C12_ClosedRemovesPeer == [][C12_Step]_vars

\* The last connection of one peer closed while another peer stays.
C12_Witness ==
    /\ turn.kind = "ConnectionClosed"
    /\ turn.id = 0
    /\ emitted = <<Event("PeerDisconnected", turn.peer, 0, 0)>>
    /\ peers # {}

\* ----------------------------------------------------------------- C13
C13_Step ==
    turn'.kind = "ConnectionEstablished" =>
        LET p == turn'.peer
        IN /\ (emitted' = <<Event("PeerConnected", p, 0, 0)>>) <=> (p \notin peers)
           /\ emitted' # <<>> => p \notin peers
           /\ p \in peers'
           /\ peers' = peers \cup {p}
           /\ p \in peers => (emitted' = <<>> /\ UNCHANGED tables)

\* C13: ConnectionEstablished for peer p emits PeerConnected(p) if and only
\* if p was not in PeerTable; afterwards p is in PeerTable; for a peer
\* already in the table it emits nothing and changes no table.
C13_EstablishedInsertsOnce == [][C13_Step]_vars

\* A second connection to a peer that is already in the table.
C13_Witness ==
    /\ turn.kind = "ConnectionEstablished"
    /\ conns[turn.peer] = 2
    /\ emitted = <<>>

\* ----------------------------------------------------------------- C14
C14_Step ==
    /\ turn'.kind = "SendRequest" =>
          \E r \in RequestIds :
             /\ r \notin DOMAIN pending_responses
             /\ DOMAIN pending_responses' = DOMAIN pending_responses \cup {r}
             /\ \A x \in DOMAIN pending_responses :
                   /\ pending_responses'[x] = pending_responses[x]
                   /\ pending_responses'[x] # pending_responses'[r]
             /\ replies'[pending_responses'[r]] = <<>>
             /\ ops' = <<Op("Request", turn'.peer, 0, EmptySummary, {}, r)>>
             /\ emitted' = <<Event("RequestMessage", 0, 0, r)>>
    /\ turn'.kind = "Response" =>
          LET r == turn'.id
          IN IF r \in DOMAIN pending_responses
             THEN LET chan == pending_responses[r]
                  IN /\ pending_responses' = Drop(pending_responses, r)
                     /\ replied' = <<Reply(chan, "Response", {})>>
                     /\ replies' = [replies EXCEPT ![chan] = Append(@, "Response")]
             ELSE /\ replied' = <<>>
                  /\ UNCHANGED <<tables, replies>>

C15_FailureRemovesEntry ==
    /\ turn.kind = "OutboundFailure" =>
          (turn.id \notin DOMAIN pending_responses /\ replied = <<>>)
    /\ \A r \in DOMAIN pending_responses : r \in outstanding

\* ----------------------------------------------------------------- C16
\* C16: when the caller of a command has dropped its reply channel, the
\* failed send is only logged: the event loop keeps running.
C16_DroppedCallerIgnored ==
    (turn.kind \in {"GetBitswap", "Put"} /\ ~turn.ok) => loop = "running"

\* ----------------------------------------------------------------- C17
C17_Step ==
    /\ taken' \in {taken, taken + 1}
    /\ taken' = taken + 1 =>
          /\ queue # <<>>
          /\ intake' = queue[1]
          /\ intake'.seq = taken + 1
          /\ queue' = Tail(queue)
          /\ turn'.kind = intake'.cmd
          /\ turn'.cid = intake'.cid
          /\ turn'.peer = intake'.peer
          /\ turns' = turns + 1
    /\ taken' = taken =>
          /\ intake' = intake
          /\ \/ queue' = queue
             \/ /\ Len(queue') = Len(queue) + 1
                /\ SubSeq(queue', 1, Len(queue)) = queue
                /\ UNCHANGED <<tables, lastTurn, turns>>

C18_ClosedDrainsThenExits ==
    closed =>
        /\ loop # "panicked"
        /\ sent = taken + Len(queue)
        /\ \A i \in 1..Len(queue) : queue[i].seq = taken + i
        /\ loop = "exited" => (queue = <<>> /\ turn.kind = "CommandInvalid")

\* ----------------------------------------------------------------- C19
C19_Step ==
    \A r \in Reqs :
        (tee'[r].pc = "sent" /\ tee[r].pc # "sent") =>
            /\ handler[r].status = "200"
            /\ tee[r].pc = "draining"
            /\ tee'[r].bytes = tee[r].bytes

\* C19: the proxy sends UpstreamData{key, value} to the cache only after a
\* 200 OK whose body ended cleanly, no chunk error before; after a non-200
\* response, an upstream connection error, a URL parse error or a chunk
\* error the request never sends UpstreamData.
C19_CacheWriteOnlyAfterCleanOk ==
    /\ [][C19_Step]_vars
    /\ [](\A r \in Reqs : tee[r].pc = "sent" => handler[r].status = "200")
    /\ [](\A r \in Reqs :
            (\/ handler[r].status \in {"error", "other"}
             \/ handler[r].response.kind = "parse_error"
             \/ tee[r].pc = "aborted") => tee[r].pc # "sent")
    /\ [][\A r \in Reqs : tee[r].pc = "aborted" => tee'[r].pc = "aborted"]_vars

\* One request has sent its body to the cache after a clean 200, another
\* got a non-200 response.
C19_Witness ==
    \E r, q \in Reqs :
        /\ tee[r].pc = "sent"
        /\ Len(tee[r].bytes) >= 1
        /\ handler[q].status = "other"
        /\ handler[q].response.kind = "passthrough"

\* ----------------------------------------------------------------- C20
C20_Step ==
    \A r \in Reqs :
        (handler[r].pc = "lookup" /\ handler'[r].pc # "lookup") =>
            /\ handler'[r].answer = "hit" =>
                  /\ handler'[r].pc = "done"
                  /\ handler'[r].response = Response("cached", cache[handler[r].key])
                  /\ UNCHANGED <<tee, cache>>
            /\ (handler[r].key \in DOMAIN cache /\ handler'[r].answer # "dropped") =>
                  handler'[r].answer = "hit"

\* C20: a GET without no-cache whose GetRequest the cache answers with a
\* stored response returns that response and ends: it never contacts the
\* upstream and never sends UpstreamData; so once a request for key k has
\* stored a clean 200 body, a later request for k that the cache answers
\* is served from the cache.
C20_HitServedFromCache ==
    /\ [][C20_Step]_vars
    /\ [](\A r \in Reqs :
            handler[r].answer = "hit" =>
                /\ handler[r].pc = "done"
                /\ ~handler[r].no_cache
                /\ handler[r].response.kind = "cached"
                /\ handler[r].status = "none"
                /\ tee[r] = NoTee)

\* The body one request stored after a clean 200 is the cached response a
\* later request for the same key got.
C20_Witness ==
    \E r, q \in Reqs :
        /\ q < r
        /\ tee[q].pc = "sent"
        /\ Len(tee[q].bytes) >= 1
        /\ handler[r].key = handler[q].key
        /\ handler[r].answer = "hit"
        /\ handler[r].response = Response("cached", tee[q].bytes)

\* ----------------------------------------------------------------- C21
\* The upstream GET of r has been issued.
Contacted(r) == handler[r].pc = "get" \/ handler[r].status # "none"

\* C21 as stated: a GET carrying Cache-Control: no-cache never sends a
\* GetRequest to the cache and always contacts the upstream.
C21_NoCacheAlwaysUpstream ==
    \A r \in Reqs :
        handler[r].no_cache => (handler[r].answer = "none" /\ Contacted(r))

C21_Step ==
    \A r \in Reqs :
        /\ (handler[r].pc = "idle" /\ handler'[r].no_cache) =>
              /\ handler'[r].pc # "lookup"
              /\ handler'[r].key \in DOMAIN cache => handler'[r].pc = "get"
              /\ handler'[r].pc = "get" <=> Parses(handler'[r].key)
        /\ (handler[r].no_cache /\ handler[r].pc = "get" /\ handler'[r].status = "200") =>
              tee'[r].pc = "draining"
        /\ (handler[r].no_cache /\ tee[r].pc = "draining" /\ tee'[r].pc = "sent") =>
              /\ handler[r].key \in DOMAIN cache'
              /\ cache'[handler[r].key] = tee[r].bytes

\* C21, amended: a GET carrying Cache-Control: no-cache never sends a
\* GetRequest to the cache; it contacts the upstream whenever its upstream
\* URL parses, also when the key is cached (a no-cache GET whose URL does
\* not parse returns the parse error and contacts nothing); on a 200 with a
\* clean end of body it sends UpstreamData for the key to the cache.
C21_NoCacheBypassesRead ==
    /\ [][C21_Step]_vars
    /\ [](\A r \in Reqs :
            handler[r].no_cache =>
                /\ handler[r].answer = "none"
                /\ handler[r].pc # "lookup"
                /\ handler[r].response.kind # "cached"
                /\ Parses(handler[r].key) <=> Contacted(r))

\* A no-cache request got a 200 and replaced, by its own body, the body an
\* earlier request had stored for the same key.
C21_Witness ==
    \E r, q \in Reqs :
        /\ q < r
        /\ handler[r].no_cache
        /\ handler[r].key = handler[q].key
        /\ tee[q].pc = "sent"
        /\ tee[r].pc = "sent"
        /\ tee[r].bytes # tee[q].bytes
        /\ cache[handler[r].key] = tee[r].bytes

\* ----------------------------------------------------------------- C22
\* r has an upstream fetch in flight: its GET is issued and not answered, or
\* its task is still draining the body.
Fetching(r) == handler[r].pc = "get" \/ tee[r].pc = "draining"

\* C22: for every key at most one upstream fetch is in flight at any time:
\* of the concurrent requests for a key that all missed the cache, one
\* issues the upstream GET and the others join it.
C22_SingleFlight ==
    \A r, q \in Reqs :
        (/\ handler[r].answer = "miss" /\ Fetching(r)
         /\ handler[q].answer = "miss" /\ Fetching(q)
         /\ handler[r].key = handler[q].key) => r = q

\* ----------------------------------------------------------------- C23
\* The first n chunks of an upstream body, in arrival order.
Chunks(n) == [i \in 1..n |-> i]

\* C23 as stated, its last part: the response is returned to the client
\* before UpstreamData is sent.
C23_ReturnedBeforeUpstreamData ==
    \A r \in Reqs : tee[r].pc = "sent" => handler[r].response.kind = "stream"

C23_Step ==
    \A r \in Reqs :
        /\ (tee[r].pc = "draining" /\ tee'[r].pc = "draining" /\ tee'[r] # tee[r]) =>
              LET buf == tee[r].read + 1
              IN /\ tee'[r].read = buf
                 /\ tee'[r].bytes = Append(tee[r].bytes, buf)
                 /\ tee'[r].pipe \in {tee[r].pipe, Append(tee[r].pipe, buf)}
                 /\ tee[r].pipe # tee[r].bytes => tee'[r].pipe = tee[r].pipe
        /\ (tee[r].pc = "draining" /\ tee'[r].pc = "sent") =>
              /\ tee'[r].bytes = tee[r].bytes
              /\ tee'[r].pipe = tee[r].pipe
              /\ cache' = Store(cache, handler[r].key, Chunks(tee[r].read))
        /\ (handler[r].pc = "spawned" /\ handler'[r].pc # "spawned") =>
              /\ handler'[r].pc = "done"
              /\ handler'[r].response = Response("stream", <<>>)
              /\ UNCHANGED <<tee, cache>>

\* C23, amended: on a 200 the detached task tees every chunk: what it
\* writes to the client pipe and what it appends to the buffer are the same
\* upstream chunks in arrival order, so at a clean end of stream the value
\* sent in UpstreamData is the concatenation of all upstream chunks and is
\* the body a client that read the whole stream has received; proxy_pass
\* returns the response without waiting for any step of the task, and the
\* task does not wait for the return.
C23_TeeSameChunksInOrder ==
    /\ [][C23_Step]_vars
    /\ [](\A r \in Reqs :
            tee[r].pc \in {"draining", "sent"} =>
                /\ tee[r].bytes = Chunks(tee[r].read)
                /\ tee[r].pipe = Chunks(Len(tee[r].pipe))
                /\ Len(tee[r].pipe) <= tee[r].read
                /\ handler[r].pc = "spawned" => tee[r].pipe = tee[r].bytes)
    /\ [](\A r \in Reqs : handler[r].pc = "spawned" => ENABLED ReturnStream(r))

\* A body of two chunks sent to the cache, the client having been written
\* both, in order.
C23_Witness ==
    \E r \in Reqs :
        /\ tee[r].pc = "sent"
        /\ handler[r].response.kind = "stream"
        /\ tee[r].read = 2
        /\ tee[r].bytes = <<1, 2>>
        /\ tee[r].pipe = <<1, 2>>
        /\ cache[handler[r].key] = <<1, 2>>

\* ----------------------------------------------------------------- C24
C24_Step ==
    turn'.kind \in {"CarRequest", "CacheRequest", "StoreSummary"} =>
        LET p == turn'.peer
            id == turn'.id
        IN /\ emitted' = <<Event("RequestMessage", 0, 0, id)>>
           /\ replied' = <<>>
           /\ UNCHANGED <<peers, cached_content, bitswap_queries, response_channels,
                          pending_responses, swarm, loop>>
           /\ turn'.kind = "StoreSummary" =>
                 /\ DOMAIN peer_cached_content' = DOMAIN peer_cached_content \cup {p}
                 /\ peer_cached_content'[p] = turn'.summary
                 /\ \A x \in DOMAIN peer_cached_content :
                       x # p => peer_cached_content'[x] = peer_cached_content[x]
                 /\ ops' = <<Op("StoreSummaryRequest", p, 0, EmptySummary, {}, id)>>
           /\ turn'.kind = "CacheRequest" =>
                 /\ UNCHANGED tables
                 /\ ops' = <<Op("graphsync", p, turn'.cid, EmptySummary, {}, 0),
                             Op("CacheResponse", p, 0, EmptySummary, {}, id)>>
           /\ turn'.kind = "CarRequest" =>
                 /\ UNCHANGED tables
                 /\ ops' = <<>>

\* C24: handling an inbound request from peer p: StoreSummary(s) sets
\* PeerContentMap[p] = s, replacing any earlier summary of p, and responds
\* StoreSummaryRequest; CacheRequest(cid) starts a graphsync pull from p
\* rooted at cid and responds CacheResponse, changing no table; CarRequest
\* sends no response and changes no state; each of the three emits exactly
\* one RequestMessage{request_id}.
C24_InboundRequests == [][C24_Step]_vars

\* A StoreSummary from a connected peer stored, answered and announced.
C24_Witness ==
    /\ turn.kind = "StoreSummary"
    /\ turn.summary # EmptySummary
    /\ peer_cached_content[turn.peer] = turn.summary
    /\ ops = <<Op("StoreSummaryRequest", turn.peer, 0, EmptySummary, {}, turn.id)>>
    /\ emitted = <<Event("RequestMessage", 0, 0, turn.id)>>

\* ----------------------------------------------------------------- C25
\* The turns that handle a swarm event.
SwarmTurns ==
    {"BitswapComplete", "MdnsDiscovered", "CarRequest", "CacheRequest", "StoreSummary",
     "Response", "OutboundFailure", "ConnectionEstablished", "ConnectionClosed", "Autonat"}

\* C25: no swarm event makes the event loop panic or exit: the handler of
\* every swarm event (also of an Autonat Unknown -> Private transition whose
\* relay listen attempt fails, and of an inbound CacheRequest) returns
\* normally and the loop goes on to its next turn.
C25_SwarmEventsNeverPanic == turn.kind \in SwarmTurns => loop = "running"

\* ----------------------------------------------------------------- C26
\* The reply channel w is stored in BlockWaiters.
Waiting(w) == \E cid \in DOMAIN response_channels : w \in Range(response_channels[cid])

\* C26: if every bitswap query that was started yields a Complete event,
\* every reply channel GetBitswap added to BlockWaiters is sent a reply in
\* the end, also one whose own fetch failed to launch while no query for
\* its cid was in flight, and with no query in flight BlockWaiters and
\* BitswapQueries are both empty.
C26_EveryWaiterAnswered ==
    /\ \A w \in ChanIds : Waiting(w) ~> (Len(replies[w]) > 0)
    /\ [](inflight = {} => (response_channels = <<>> /\ bitswap_queries = <<>>))

\* ----------------------------------------------------------------- C27
\* C27: the NetworkEvents reach the event sink in the order the loop
\* emitted them: an event emitted by a later emit_event call is never
\* received before one emitted by an earlier call (PeerDisconnected(p) is
\* never seen before the PeerConnected(p) that preceded it), though each
\* is sent by a task of its own.
C27_SinkInEmissionOrder ==
    /\ \A i, j \in 1..Len(sink) : i < j => sink[i].n < sink[j].n
    /\ \A t \in tasks : \A i \in 1..Len(sink) : sink[i].n < t.n

\* ----------------------------------------------------------------- C28
\* Every event the loop has emitted so far, with its place in that order.
Emissions == tasks \cup Range(sink)

\* The emissions of ev for peer p.
PeerEmissions(ev, p) == {e \in Emissions : e.event.ev = ev /\ e.event.peer = p}

\* C28: for every peer p the emitted events alternate, PeerConnected(p)
\* first: before every PeerDisconnected(p) a PeerConnected(p) was emitted
\* with no other PeerDisconnected(p) between the two, whatever mDNS
\* Discovered, ConnectionEstablished and ConnectionClosed events arrive.
C28_ConnectedDisconnectedAlternate ==
    \A p \in Peers :
        \A d \in PeerEmissions("PeerDisconnected", p) :
            \E c \in PeerEmissions("PeerConnected", p) :
                /\ c.n < d.n
                /\ \A d2 \in PeerEmissions("PeerDisconnected", p) : ~(c.n < d2.n /\ d2.n < d.n)

\* ----------------------------------------------------------------- C29
C29_Step ==
    (turn'.kind = "ConnectionClosed" /\ turn'.id = 0) =>
        /\ UNCHANGED <<bitswap_queries, response_channels, pending_responses, cached_content>>
        /\ replied' = <<>>
        /\ replies' = replies
        /\ UNCHANGED <<inflight, outstanding>>

\* C29: a peer disconnect (ConnectionClosed with num_established = 0)
\* leaves BitswapQueries, BlockWaiters, PendingResponses and the local
\* CacheSummary as they were: the waiters and the pending reply channels
\* that depend on the peer are neither replied to nor dropped.
C29_DisconnectKeepsPending == [][C29_Step]_vars

\* The only peer disconnected while a block waiter and a pending request
\* to it are stored.
C29_Witness ==
    /\ turn.kind = "ConnectionClosed"
    /\ turn.id = 0
    /\ peers = {}
    /\ DOMAIN response_channels # {}
    /\ DOMAIN bitswap_queries # {}
    /\ DOMAIN pending_responses # {}
    /\ \A w \in ChanIds : replies[w] = <<>>

\* ----------------------------------------------------------------- C30
C30_Step ==
    \A r \in Reqs :
        /\ (tee[r].pc = "draining" /\ tee'[r].read # tee[r].read /\ tee'[r].pipe = tee[r].pipe
                /\ tee'[r].pc # "aborted") =>
              /\ tee'[r].pc = "draining"
              /\ tee'[r].read = tee[r].read + 1
              /\ tee'[r].bytes = Append(tee[r].bytes, tee'[r].read)
        /\ (tee[r].pc = "draining" /\ tee'[r].pc = "sent" /\ tee[r].pipe # tee[r].bytes) =>
              /\ handler[r].key \in DOMAIN cache'
              /\ cache'[handler[r].key] = Chunks(tee[r].read)

\* C30: in the tee task a failed write to the client pipe (the client has
\* dropped the response body) does not stop the drain: the task keeps
\* reading the upstream body, and at a clean end it sends UpstreamData
\* whose value is the complete upstream body, not one cut at the failure.
C30_FailedWriteKeepsDraining ==
    /\ [][C30_Step]_vars
    /\ [](\A r \in Reqs :
            (tee[r].pc \in {"draining", "sent"} /\ tee[r].pipe # tee[r].bytes) =>
                /\ Len(tee[r].bytes) = tee[r].read
                /\ tee[r].bytes = Chunks(tee[r].read)
                /\ handler[r].pc = "done")

\* The client dropped the body after the first of two chunks; both chunks
\* were sent to the cache.
C30_Witness ==
    \E r \in Reqs :
        /\ tee[r].pc = "sent"
        /\ tee[r].read = 2
        /\ tee[r].pipe = <<1>>
        /\ tee[r].bytes = <<1, 2>>
        /\ cache[handler[r].key] = <<1, 2>>

Rank(pc) ==
    CASE pc = "idle" -> 0
      [] pc = "lookup" -> 1
      [] pc = "get" -> 2
      [] pc = "spawned" -> 3
      [] pc = "done" -> 4

C31_Step ==
    \A r \in Reqs :
        /\ (handler[r].pc = "lookup" /\ handler'[r].answer = "dropped") =>
              /\ handler'[r] = [OnAnswer(handler[r], "miss", <<>>) EXCEPT !.answer = "dropped"]
              /\ handler'[r].pc = (IF Parses(handler[r].key) THEN "get" ELSE "done")
              /\ UNCHANGED <<tee, cache>>
        /\ (handler[r].pc = "get" /\ handler'[r].status = "error") =>
              /\ handler'[r].pc = "done"
              /\ handler'[r].response = Response("500", <<>>)
              /\ tee[r] = NoTee
              /\ UNCHANGED <<tee, cache>>
        /\ handler[r].pc = "done" => handler'[r] = handler[r]
        /\ handler'[r] # handler[r] => Rank(handler'[r].pc) > Rank(handler[r].pc)
        /\ handler'[r].response # handler[r].response =>
              (handler[r].response.kind = "none" /\ handler'[r].pc = "done")

====
